---- MODULE Spec2Model ----
(***************************************************************************)
(* Model of the filter-driven tree-transformation engine of                *)
(* scenario-scripts/scenarioOperations.py (Filter, FilterGroup and         *)
(* apply_operation with its nested helpers).                               *)
(*                                                                         *)
(* JSON values are tagged records of one shape, so that values of          *)
(* different Python types can be compared the way Python compares them.    *)
(* Numbers are exact rationals n/d (d > 0, lowest terms).  A list value    *)
(* is represented by its length: the only list literal drawn is [], and    *)
(* Python's ==, < and > between a list and [] depend on the length only.   *)
(***************************************************************************)
EXTENDS Integers, Sequences, FiniteSets, TLC

VARIABLES data, pc, call, input, nodes_to_move, outcome, errlog, probe,
          walk, gui, script, tool

\* the state outside the engine call: the step-by-step walk (WalkSpec), the
\* GUI handler (GuiSpec), a community script (FlattenSpec, PairSpec) and the
\* ScenarioTool object (ToolSpec)
aux == <<walk, gui, script, tool>>

vars == <<data, pc, call, input, nodes_to_move, outcome, errlog, probe,
          walk, gui, script, tool>>

(***************************************************************************)
(* Bounds of the model.                                                    *)
(***************************************************************************)
MaxNodes == 3

(***************************************************************************)
(* Values.                                                                 *)
(***************************************************************************)
RECURSIVE Gcd(_, _)
Gcd(a, b) == IF b = 0 THEN a ELSE Gcd(b, a % b)

Abs(a) == IF a < 0 THEN -a ELSE a

Rat(n, d) ==
    LET g == Gcd(Abs(n), Abs(d))
        sgn == IF d < 0 THEN -1 ELSE 1
    IN  [t |-> "num", n |-> (sgn * n) \div g, d |-> (sgn * d) \div g, s |-> ""]

Num(n) == [t |-> "num", n |-> n, d |-> 1, s |-> ""]

Str(s) == [t |-> "str", n |-> 0, d |-> 1, s |-> s]

Null == [t |-> "null", n |-> 0, d |-> 1, s |-> ""]

ListV(len) == [t |-> "list", n |-> len, d |-> 1, s |-> ""]

\* marks a key that the mapping does not have
Absent == [t |-> "absent", n |-> 0, d |-> 1, s |-> ""]

\* str(x) for the ids the model draws
IntStr(n) ==
    CASE n = 0 -> "0" [] n = 1 -> "1" [] n = 2 -> "2" [] n = 3 -> "3"
      [] n = 4 -> "4" [] n = 5 -> "5" [] n = 6 -> "6" [] n = 7 -> "7"
      [] n = 8 -> "8" [] n = 9 -> "9" [] OTHER -> "many"

\* str(node.get('id')): a missing id gives str(None)
PyStr(v) ==
    CASE v.t = "num" -> IF v.d = 1 THEN IntStr(v.n) ELSE "fraction"
      [] v.t = "str" -> v.s
      [] v.t = "list" -> "[...]"
      [] OTHER -> "None"

\* float(s): the strings that parse, and their value
NumericStrings == {"0", "1", "2", "5"}

ParseFloat(s) ==
    CASE s = "0" -> Num(0) [] s = "1" -> Num(1) [] s = "2" -> Num(2)
      [] s = "5" -> Num(5) [] OTHER -> Null

\* lexicographic order of the strings the model draws
StrRank(s) ==
    CASE s = "0" -> 0 [] s = "1" -> 1 [] s = "2" -> 2 [] s = "5" -> 3
      [] s = "x" -> 4 [] s = "y" -> 5 [] OTHER -> 6

\* variant: values are equal when their string forms are
PyEq_loose(a, b) == PyStr(a) = PyStr(b)

\* Python ==
PyEq(a, b) ==
    IF a.t # b.t THEN FALSE
    ELSE CASE a.t = "num" -> a.n = b.n /\ a.d = b.d
           [] a.t = "str" -> a.s = b.s
           [] a.t = "list" -> a.n = b.n
           [] OTHER -> TRUE

\* Python <: "true", "false", or "raise" (TypeError: '<' not supported)
PyLess(a, b) ==
    IF a.t = "num" /\ b.t = "num"
        THEN (IF a.n * b.d < b.n * a.d THEN "true" ELSE "false")
    ELSE IF a.t = "str" /\ b.t = "str"
        THEN (IF StrRank(a.s) < StrRank(b.s) THEN "true" ELSE "false")
    ELSE IF a.t = "list" /\ b.t = "list"
        THEN (IF a.n < b.n THEN "true" ELSE "false")
    ELSE "raise"

Bool3(b) == IF b THEN "true" ELSE "false"

(***************************************************************************)
(* Mappings.  A node is a record: its scalar keys id and val (either may   *)
(* be missing), and the key child_nodes (has_cn says whether the key is    *)
(* there).  Every other key is missing.                                    *)
(***************************************************************************)
Node(id, val, has_cn, children) ==
    [id |-> id, val |-> val, has_cn |-> has_cn, child_nodes |-> children]

\* obj[key], Absent when key not in obj
Get(obj, key) ==
    CASE key = "id" -> obj.id
      [] key = "val" -> obj.val
      [] key = "child_nodes" ->
            (IF obj.has_cn THEN ListV(Len(obj.child_nodes)) ELSE Absent)
      [] OTHER -> Absent

\* key in obj
Has(obj, key) == Get(obj, key).t # "absent"

\* result[key] = v on a copy of obj, for the scalar keys
SetKey(obj, key, v) ==
    CASE key = "id" -> [obj EXCEPT !.id = v]
      [] key = "val" -> [obj EXCEPT !.val = v]
      [] OTHER -> obj

(***************************************************************************)
(* Measures of a forest of nodes.                                          *)
(***************************************************************************)
\* every node of a forest, at every depth
RECURSIVE AllNodes(_)
AllNodes(forest) ==
    IF forest = <<>> THEN {}
    ELSE {Head(forest)} \cup AllNodes(Head(forest).child_nodes) \cup AllNodes(Tail(forest))

RECURSIVE CountNodes(_)
CountNodes(forest) ==
    IF forest = <<>> THEN 0
    ELSE 1 + CountNodes(Head(forest).child_nodes) + CountNodes(Tail(forest))

\* how many nodes of the forest have this id
RECURSIVE Occurrences(_, _)
Occurrences(forest, id) ==
    IF forest = <<>> THEN 0
    ELSE (IF Head(forest).id = id THEN 1 ELSE 0)
         + Occurrences(Head(forest).child_nodes, id) + Occurrences(Tail(forest), id)

IdsOf(forest) == { n.id : n \in AllNodes(forest) }

\* the ids of a node and of all its descendants
SubtreeIds(node) == IdsOf(<<node>>)

SubtreeSize(node) == CountNodes(<<node>>)

\* the node of the forest with this id
NodeAt(forest, id) == CHOOSE n \in AllNodes(forest) : n.id = id

\* the ids of the direct children of the node with this id
ChildIds(forest, id) ==
    LET n == NodeAt(forest, id) IN { n.child_nodes[i].id : i \in 1..Len(n.child_nodes) }

\* a forest without the nodes whose id is in ids (and without their subtrees)
RECURSIVE Without(_, _)
Without(forest, ids) ==
    IF forest = <<>> THEN <<>>
    ELSE LET h == Head(forest) IN
         (IF h.id \in ids THEN <<>>
          ELSE <<[h EXCEPT !.child_nodes = Without(h.child_nodes, ids)]>>)
         \o Without(Tail(forest), ids)

RECURSIVE SumOfSizes(_)
SumOfSizes(nodes) ==
    IF nodes = {} THEN 0
    ELSE LET n == CHOOSE x \in nodes : TRUE IN SubtreeSize(n) + SumOfSizes(nodes \ {n})

(***************************************************************************)
(* Filter.evaluate and FilterGroup.evaluate.                               *)
(***************************************************************************)
Filter(property, comparison, value) ==
    [property |-> property, comparison |-> comparison, value |-> value]

FilterGroup(filters, logical_op) ==
    [filters |-> filters, logical_op |-> logical_op]

\* variant: the field is read without the membership test (obj.get)
FilterEvaluate_get(f, obj) ==
    LET target == Get(obj, f.property) IN
    CASE f.comparison = "equals" -> Bool3(PyEq(target, f.value))
      [] f.comparison = "not_equals" -> Bool3(~PyEq(target, f.value))
      [] f.comparison = "greater_than" -> PyLess(f.value, target)
      [] f.comparison = "less_than" -> PyLess(target, f.value)
      [] OTHER -> "false"

FilterEvaluate(f, obj) ==
    IF ~Has(obj, f.property) THEN "false"
    ELSE LET target == Get(obj, f.property) IN
         CASE f.comparison = "equals" -> Bool3(PyEq(target, f.value))
           [] f.comparison = "not_equals" -> Bool3(~PyEq(target, f.value))
           [] f.comparison = "greater_than" -> PyLess(f.value, target)
           [] f.comparison = "less_than" -> PyLess(target, f.value)
           [] OTHER -> "false"

\* variant: all() of an empty list is false
PyAll_nonempty(results) ==
    Len(results) > 0 /\ \A i \in 1..Len(results) : results[i] = "true"

\* all(results)
PyAll(results) == \A i \in 1..Len(results) : results[i] = "true"

\* any(results)
PyAny(results) == \E i \in 1..Len(results) : results[i] = "true"

\* variant: the parity of the number of true results
PySum_parity(results) ==
    Cardinality({i \in 1..Len(results) : results[i] = "true"}) % 2

\* sum(results): the number of true results
PySum(results) == Cardinality({i \in 1..Len(results) : results[i] = "true"})

\* line 57 evaluates every filter before the results are combined, so one
\* raising filter makes the group raise
FilterGroupEvaluate(fg, obj) ==
    LET results == [i \in 1..Len(fg.filters) |-> FilterEvaluate(fg.filters[i], obj)]
    IN  IF \E i \in 1..Len(results) : results[i] = "raise" THEN "raise"
        ELSE CASE fg.logical_op = "and" -> Bool3(PyAll(results))
               [] fg.logical_op = "or" -> Bool3(PyAny(results))
               [] fg.logical_op = "nand" -> Bool3(~PyAll(results))
               [] fg.logical_op = "xor" -> Bool3(PySum(results) = 1)
               [] OTHER -> "false"

(***************************************************************************)
(* apply_operation: the call's arguments are the record c =                *)
(* [operation, target_property, filter_group, value, operator_adjustment]. *)
(***************************************************************************)
Args(operation, target_property, filter_group, value, adj) ==
    [operation |-> operation, target_property |-> target_property,
     filter_group |-> filter_group, value |-> value,
     operator_adjustment |-> adj]

\* an exception leaving the function (TypeError)
RaiseV == [t |-> "raise", n |-> 0, d |-> 1, s |-> ""]

\* value * operator_adjustment
Operand(c) ==
    IF c.value.t = "num" /\ c.operator_adjustment.t = "num"
    THEN Rat(c.value.n * c.operator_adjustment.n, c.value.d * c.operator_adjustment.d)
    ELSE RaiseV

ArithOps == {"add", "multiply", "divide", "scale"}

\* variant: the operand is subtracted
PyAdd_minus(cur, k) ==
    IF k.t = "raise" \/ cur.t # "num" THEN RaiseV
    ELSE Rat(cur.n * k.d - k.n * cur.d, cur.d * k.d)

\* line 108: current_value + k, TypeError unless both are numbers
PyAdd(cur, k) ==
    IF k.t = "raise" \/ cur.t # "num" THEN RaiseV
    ELSE Rat(cur.n * k.d + k.n * cur.d, cur.d * k.d)

process_value(current_value, c) ==
    LET op == c.operation
        isStr == current_value.t = "str"
        parses == isStr /\ current_value.s \in NumericStrings
        cur == IF parses THEN ParseFloat(current_value.s) ELSE current_value
        k == Operand(c)
        adj == c.operator_adjustment
    IN  IF isStr /\ ~parses /\ op \in ArithOps THEN current_value
        ELSE CASE op = "add" -> PyAdd(cur, k)
               [] op = "multiply" ->
                    (IF k.t = "raise" \/ cur.t # "num" THEN RaiseV
                     ELSE Rat(cur.n * k.n, cur.d * k.d))
               [] op = "divide" ->
                    (IF k.t = "raise" THEN RaiseV
                     ELSE IF k.n = 0 THEN cur
                     ELSE IF cur.t # "num" THEN RaiseV
                     ELSE Rat(cur.n * k.d, cur.d * k.n))
               [] op = "scale" ->
                    (IF cur.t # "num" \/ adj.t # "num" THEN RaiseV
                     ELSE Rat(cur.n * adj.n, cur.d * adj.d))
               [] op = "change" -> c.value
               [] OTHER -> cur

\* variant: the moved copy loses its children
MovedNode_bare(obj) == [obj EXCEPT !.child_nodes = <<>>]

\* moved_node = obj.copy() with obj's (already rewritten) child_nodes
MovedNode(obj) == obj

\* what process_object and process_list give back:
\*   raised   an exception left the function
\*   keep     the return value is not None
\*   out      the return value
\*   inplace  the argument object(s) as the call left them (the walk assigns
\*            obj['child_nodes'] on the caller's own objects)
\*   moved    what the call appended to nodes_to_move
Result(raised, keep, out, inplace, moved) ==
    [raised |-> raised, keep |-> keep, out |-> out, inplace |-> inplace,
     moved |-> moved]

\* variant: the operand is written over a field the node already has
AddProperty_overwrite(obj, tp, v) == SetKey(obj, tp, v)

\* lines 145-150: the field is set on a copy only when obj lacks it
AddProperty(obj, tp, v) == IF ~Has(obj, tp) THEN SetKey(obj, tp, v) ELSE obj

RECURSIVE process_object(_, _), process_list(_, _)

\* lines 130-158: what process_object does with obj once its child_nodes
\* have been rewritten; moved is what the children added to nodes_to_move
NodeStep(obj1, c, moved) ==
    LET m == FilterGroupEvaluate(c.filter_group, obj1)
        tp == c.target_property
    IN  IF m = "raise"
            THEN Result(TRUE, FALSE, obj1, obj1, moved)
        ELSE IF m = "true" /\ c.operation = "remove_node"
            THEN Result(FALSE, FALSE, obj1, obj1, moved)
        ELSE IF m = "true" /\ c.operation = "set_parent_node"
            THEN Result(FALSE, FALSE, obj1, obj1, moved \o <<MovedNode(obj1)>>)
        ELSE IF m = "true" /\ c.operation = "add_property"
            THEN Result(FALSE, TRUE, AddProperty(obj1, tp, c.value), obj1, moved)
        ELSE IF m = "true" /\ Has(obj1, tp)
            THEN LET v == process_value(Get(obj1, tp), c) IN
                 IF v.t = "raise" THEN Result(TRUE, FALSE, obj1, obj1, moved)
                 ELSE Result(FALSE, TRUE, SetKey(obj1, tp, v), obj1, moved)
        ELSE Result(FALSE, TRUE, obj1, obj1, moved)

process_object(obj, c) ==
    LET r == IF obj.has_cn THEN process_list(obj.child_nodes, c)
             ELSE Result(FALSE, TRUE, <<>>, <<>>, <<>>)
        obj1 == IF obj.has_cn THEN [obj EXCEPT !.child_nodes = r.out] ELSE obj
    IN  IF r.raised
            THEN Result(TRUE, FALSE, obj, [obj EXCEPT !.child_nodes = r.inplace], r.moved)
        ELSE NodeStep(obj1, c, r.moved)

\* variant: the item is appended without the None test
Kept_always(h) == <<h.out>>

\* lines 165-166: what one processed item adds to result
Kept(h) == IF h.keep THEN <<h.out>> ELSE <<>>

\* the items of a node list are mappings (lines 163-166)
process_list(lst, c) ==
    IF lst = <<>> THEN Result(FALSE, TRUE, <<>>, <<>>, <<>>)
    ELSE LET h == process_object(Head(lst), c) IN
         IF h.raised
         THEN Result(TRUE, FALSE, <<>>, <<h.inplace>> \o Tail(lst), h.moved)
         ELSE LET t == process_list(Tail(lst), c) IN
              Result(t.raised, ~t.raised,
                     IF t.raised THEN <<>>
                     ELSE Kept(h) \o t.out,
                     <<h.inplace>> \o t.inplace,
                     h.moved \o t.moved)

\* variant: the collected nodes are put before the children already there
ExtendChildren_prepend(node, new_children) ==
    [node EXCEPT !.has_cn = TRUE,
                 !.child_nodes = new_children
                                 \o (IF node.has_cn THEN node.child_nodes ELSE <<>>)]

\* variant: only the first collected node is attached
ExtendChildren_first(node, new_children) ==
    [node EXCEPT !.has_cn = TRUE,
                 !.child_nodes = (IF node.has_cn THEN node.child_nodes ELSE <<>>)
                                 \o <<Head(new_children)>>]

\* lines 86-88: node['child_nodes'] created when missing, then extended
ExtendChildren(node, new_children) ==
    [node EXCEPT !.has_cn = TRUE,
                 !.child_nodes = (IF node.has_cn THEN node.child_nodes ELSE <<>>)
                                 \o new_children]

RECURSIVE find_and_update_target(_, _, _)

\* variant: when the search falls off the end of the root list, the collected
\* nodes are put back there
find_and_update_target_fallback(nodes, target_id, new_children) ==
    IF nodes = <<>> THEN [found |-> FALSE, nodes |-> new_children]
    ELSE LET node == Head(nodes) IN
         IF PyStr(node.id) = target_id
         THEN [found |-> TRUE,
               nodes |-> <<ExtendChildren(node, new_children)>> \o Tail(nodes)]
         ELSE LET below == IF node.has_cn
                           THEN find_and_update_target(node.child_nodes, target_id, new_children)
                           ELSE [found |-> FALSE, nodes |-> <<>>]
              IN  IF below.found
                  THEN [found |-> TRUE,
                        nodes |-> <<[node EXCEPT !.child_nodes = below.nodes]>> \o Tail(nodes)]
                  ELSE LET rest == find_and_update_target(Tail(nodes), target_id, new_children)
                       IN  [found |-> rest.found, nodes |-> <<node>> \o rest.nodes]

\* [found, nodes]: the return value, and the list as the call left it
find_and_update_target(nodes, target_id, new_children) ==
    IF nodes = <<>> THEN [found |-> FALSE, nodes |-> <<>>]
    ELSE LET node == Head(nodes) IN
         IF PyStr(node.id) = target_id
         THEN [found |-> TRUE,
               nodes |-> <<ExtendChildren(node, new_children)>> \o Tail(nodes)]
         ELSE LET below == IF node.has_cn
                           THEN find_and_update_target(node.child_nodes, target_id, new_children)
                           ELSE [found |-> FALSE, nodes |-> <<>>]
              IN  IF below.found
                  THEN [found |-> TRUE,
                        nodes |-> <<[node EXCEPT !.child_nodes = below.nodes]>> \o Tail(nodes)]
                  ELSE LET rest == find_and_update_target(Tail(nodes), target_id, new_children)
                       IN  [found |-> rest.found, nodes |-> <<node>> \o rest.nodes]

(***************************************************************************)
(* Documents.  A chart has root_nodes and phase_lanes; any other mapping   *)
(* (has_root = FALSE) is handled by "return process_object(data)": top     *)
(* holds the mapping's own scalar keys and child_nodes, items the mappings *)
(* nested in an array under another key.                                   *)
(***************************************************************************)
Edge(id, a, b, type) == [id |-> id, node_a |-> a, node_b |-> b, type |-> type]

NoNode == Node(Absent, Absent, FALSE, <<>>)

Chart(roots, lanes) ==
    [has_root |-> TRUE, root_nodes |-> roots, phase_lanes |-> lanes,
     top |-> NoNode, items |-> <<>>]

Mapping(top, items) ==
    [has_root |-> FALSE, root_nodes |-> <<>>, phase_lanes |-> <<>>,
     top |-> top, items |-> items]

\* the values of the key val in the documents drawn
Vals == {Absent, Num(5), Str("x")}

\* the forests of n nodes whose ids, in document order, are first, first+1, ...
\* and whose val is drawn from vals
RECURSIVE ForestsOver(_, _, _)
ForestsOver(n, first, vals) ==
    IF n = 0 THEN {<<>>}
    ELSE UNION { { <<Node(Num(first), v, h, kids)>> \o rest :
                     v \in vals,
                     h \in (IF k = 0 THEN BOOLEAN ELSE {TRUE}),
                     kids \in ForestsOver(k, first + 1, vals),
                     rest \in ForestsOver(n - 1 - k, first + 1 + k, vals) } :
                 k \in 0..(n - 1) }

Forests(n, first) == ForestsOver(n, first, Vals)

\* the lanes of every chart drawn: two edges, whose ends may or may not be
\* nodes of the chart
PhaseLanes ==
    { <<Edge(Num(8), Num(1), Num(2), "wormhole"), Edge(Num(9), Num(2), Num(3), "star")>> }

Charts ==
    { Chart(roots, lanes) :
        roots \in UNION { Forests(n, 1) : n \in 1..MaxNodes },
        lanes \in PhaseLanes }

ItemLists == { <<>>, <<Node(Num(7), Num(5), FALSE, <<>>)>> }

Tops ==
    { Node(Absent, v, TRUE, kids) :
        v \in Vals, kids \in UNION { Forests(n, 1) : n \in 0..(MaxNodes - 1) } }
    \cup { Node(Absent, v, FALSE, <<>>) : v \in Vals }

Mappings == { Mapping(top, items) : top \in Tops, items \in ItemLists }

Documents == Charts \cup Mappings

(***************************************************************************)
(* The calls drawn.                                                        *)
(***************************************************************************)
FVal5 == Filter("val", "equals", Num(5))

FValGt3 == Filter("val", "greater_than", Num(3))

FId2 == Filter("id", "equals", Num(2))

FNoKids == Filter("child_nodes", "equals", ListV(0))

FilterGroups ==
    { FilterGroup(<<>>, "and"),
      FilterGroup(<<FVal5>>, "and"),
      FilterGroup(<<FValGt3>>, "and"),
      FilterGroup(<<FId2>>, "and"),
      FilterGroup(<<FNoKids>>, "and"),
      FilterGroup(<<FVal5, FId2>>, "or"),
      FilterGroup(<<FVal5, FId2>>, "xor"),
      FilterGroup(<<FVal5>>, "nand") }

\* the groups drawn with the field operations
FieldGroups ==
    { FilterGroup(<<>>, "and"),
      FilterGroup(<<FVal5>>, "and"),
      FilterGroup(<<FValGt3>>, "and") }

\* target ids of MOVE: every id a chart can hold, and one that none holds
TargetIds == { IntStr(i) : i \in 1..MaxNodes } \cup {"99"}

FieldOps == {"add", "multiply", "divide", "scale", "change", "add_property"}

Calls ==
    { Args("remove_node", "", fg, Null, Num(1)) : fg \in FilterGroups }
    \cup { Args("set_parent_node", t, fg, Null, Num(1)) :
             t \in TargetIds, fg \in FilterGroups }
    \cup { Args(op, "val", fg, Num(2), Num(1)) :
             op \in FieldOps, fg \in FieldGroups }

NoCall == Args("none", "", FilterGroup(<<>>, "and"), Null, Num(1))

(***************************************************************************)
(* The state machine: one call of apply_operation on a document.           *)
(*   data           the caller's document object                           *)
(*   input          the document as it was when the call started           *)
(*   call           the arguments of the call                              *)
(*   nodes_to_move  the closure's list                                     *)
(*   outcome        what the caller gets: kind is "returned" (doc is the   *)
(*                  return value), "returned_none" (None) or "raised"      *)
(*   errlog         logging.error was called                               *)
(*   probe          one evaluation of a pure function: its arguments and   *)
(*                  its result (FilterSpec, GroupSpec); in FieldSpec its   *)
(*                  result field tells the second application of a call    *)
(***************************************************************************)
NoProbe == [done |-> FALSE, obj |-> NoNode, filter |-> FVal5, result |-> "none"]

\* the values of walk, gui, script and tool where they play no part
NoWalk == [pc |-> "off"]

NoGui == [file |-> Mapping(NoNode, <<>>), status |-> ""]

NoScript == [pc |-> "off"]

NoTool == [pc |-> "off"]

AuxIdle == walk = NoWalk /\ gui = NoGui /\ script = NoScript /\ tool = NoTool

Init ==
    /\ data \in Documents
    /\ input = data
    /\ pc = "idle"
    /\ call = NoCall
    /\ nodes_to_move = <<>>
    /\ outcome = [kind |-> "none", doc |-> data]
    /\ errlog = FALSE
    /\ probe = NoProbe
    /\ AuxIdle

\* variant: the lanes that end at a node no longer in the tree are pruned
WalkedChart_prune(d, roots) ==
    [d EXCEPT !.root_nodes = roots,
              !.phase_lanes = SelectSeq(d.phase_lanes,
                                 LAMBDA e : e.node_a \in IdsOf(roots) /\ e.node_b \in IdsOf(roots))]

\* line 178: data['root_nodes'] = ...; no other key of data is assigned
WalkedChart(d, roots) == [d EXCEPT !.root_nodes = roots]

\* lines 176-178: the first pass over root_nodes
TreeWalk(c) ==
    /\ pc = "idle"
    /\ data.has_root
    /\ LET r == process_list(data.root_nodes, c) IN
       IF r.raised
       THEN /\ data' = [data EXCEPT !.root_nodes = r.inplace]
            /\ outcome' = [kind |-> "raised", doc |-> data']
            /\ nodes_to_move' = r.moved
            /\ pc' = "done"
       ELSE /\ data' = WalkedChart(data, r.out)
            /\ outcome' = outcome
            /\ nodes_to_move' = r.moved
            /\ pc' = "walked"
    /\ call' = c
    /\ UNCHANGED <<input, errlog, probe>>
    /\ UNCHANGED aux

\* variant: the target is searched in the tree as it was before the walk
SecondPass_input ==
    /\ pc = "walked"
    /\ call.operation = "set_parent_node"
    /\ nodes_to_move # <<>>
    /\ LET f == find_and_update_target(input.root_nodes, call.target_property, nodes_to_move) IN
       /\ data' = [data EXCEPT !.root_nodes = f.nodes]
       /\ errlog' = ~f.found
    /\ outcome' = [kind |-> "returned", doc |-> data']
    /\ pc' = "done"
    /\ UNCHANGED <<call, input, nodes_to_move, probe>>
    /\ UNCHANGED aux

\* lines 181-186: the second pass of MOVE, then return data
SecondPass ==
    /\ pc = "walked"
    /\ call.operation = "set_parent_node"
    /\ nodes_to_move # <<>>
    /\ LET f == find_and_update_target(data.root_nodes, call.target_property, nodes_to_move) IN
       /\ data' = [data EXCEPT !.root_nodes = f.nodes]
       /\ errlog' = ~f.found
    /\ outcome' = [kind |-> "returned", doc |-> data']
    /\ pc' = "done"
    /\ UNCHANGED <<call, input, nodes_to_move, probe>>
    /\ UNCHANGED aux

\* line 186 when line 181 is false
ReturnData ==
    /\ pc = "walked"
    /\ ~(call.operation = "set_parent_node" /\ nodes_to_move # <<>>)
    /\ outcome' = [kind |-> "returned", doc |-> data]
    /\ pc' = "done"
    /\ UNCHANGED <<data, call, input, nodes_to_move, errlog, probe>>
    /\ UNCHANGED aux

\* line 188: a document without root_nodes
GenericCall(c) ==
    /\ pc = "idle"
    /\ ~data.has_root
    /\ LET r == process_object(data.top, c) IN
       /\ data' = [data EXCEPT !.top = r.inplace]
       /\ outcome' = IF r.raised THEN [kind |-> "raised", doc |-> data']
                     ELSE IF r.keep THEN [kind |-> "returned", doc |-> [data EXCEPT !.top = r.out]]
                     ELSE [kind |-> "returned_none", doc |-> data']
       /\ nodes_to_move' = r.moved
    /\ call' = c
    /\ pc' = "done"
    /\ UNCHANGED <<input, errlog, probe>>
    /\ UNCHANGED aux

Next ==
    \/ \E c \in Calls : TreeWalk(c)
    \/ SecondPass
    \/ ReturnData
    \/ \E c \in Calls : GenericCall(c)

Spec == Init /\ [][Next]_vars

(***************************************************************************)
(* FilterSpec: Filter.evaluate as a function of a filter and an object,    *)
(* both drawn from the sets below.                                         *)
(***************************************************************************)
ProbeLiterals == {Num(3), Num(5), Str("x"), Str("5"), Null, ListV(0)}

ProbeFilters ==
    { Filter(p, cmp, v) :
        p \in {"id", "val", "child_nodes", "filling_name"},
        cmp \in {"equals", "not_equals", "greater_than", "less_than"},
        v \in ProbeLiterals }

ProbeObjects ==
    { Node(id, v, h, <<>>) :
        id \in {Absent, Num(3)},
        v \in {Absent, Num(5), Num(1), Str("x"), Str("5"), Null},
        h \in BOOLEAN }

FilterInit ==
    /\ data = Mapping(NoNode, <<>>)
    /\ input = data
    /\ pc = "idle"
    /\ call = NoCall
    /\ nodes_to_move = <<>>
    /\ outcome = [kind |-> "none", doc |-> data]
    /\ errlog = FALSE
    /\ probe \in { [done |-> FALSE, obj |-> o, filter |-> f, result |-> "none"] :
                     o \in ProbeObjects, f \in ProbeFilters }
    /\ AuxIdle

\* one call f.evaluate(obj): result is "true", "false" or "raise"
Evaluate ==
    /\ ~probe.done
    /\ probe' = [probe EXCEPT !.done = TRUE,
                              !.result = FilterEvaluate(probe.filter, probe.obj)]
    /\ UNCHANGED <<data, pc, call, input, nodes_to_move, outcome, errlog>>
    /\ UNCHANGED aux

FilterNext == Evaluate

FilterSpec == FilterInit /\ [][FilterNext]_vars

(***************************************************************************)
(* GroupSpec: FilterGroup.evaluate as a function of a group and an object. *)
(* The groups are the lists of 0..MaxFilters filters under each of the     *)
(* four logical operators.                                                 *)
(***************************************************************************)
MaxFilters == 3

GroupFilters == {FVal5, FValGt3, FId2, FNoKids}

RECURSIVE FilterLists(_)
FilterLists(n) ==
    IF n = 0 THEN {<<>>}
    ELSE FilterLists(n - 1)
         \cup { <<f>> \o fs : f \in GroupFilters,
                               fs \in {l \in FilterLists(n - 1) : Len(l) = n - 1} }

ProbeGroups ==
    { FilterGroup(fs, op) : fs \in FilterLists(MaxFilters),
                            op \in {"and", "or", "nand", "xor"} }

GroupObjects ==
    { Node(id, v, h, <<>>) :
        id \in {Num(1), Num(2)},
        v \in {Absent, Num(5), Num(1), Str("x")},
        h \in BOOLEAN }

GroupInit ==
    /\ data = Mapping(NoNode, <<>>)
    /\ input = data
    /\ pc = "idle"
    /\ call = NoCall
    /\ nodes_to_move = <<>>
    /\ outcome = [kind |-> "none", doc |-> data]
    /\ errlog = FALSE
    /\ probe \in { [done |-> FALSE, obj |-> o, group |-> g, result |-> "none"] :
                     o \in GroupObjects, g \in ProbeGroups }
    /\ AuxIdle

\* one call group.evaluate(obj): result is "true", "false" or "raise"
GroupEvaluate ==
    /\ ~probe.done
    /\ probe' = [probe EXCEPT !.done = TRUE,
                              !.result = FilterGroupEvaluate(probe.group, probe.obj)]
    /\ UNCHANGED <<data, pc, call, input, nodes_to_move, outcome, errlog>>
    /\ UNCHANGED aux

GroupNext == GroupEvaluate

GroupSpec == GroupInit /\ [][GroupNext]_vars

(***************************************************************************)
(* ValueSpec: the arithmetic operations called on a chart of two root      *)
(* nodes.  Node 1 holds under val one value of each kind (or no val), node *)
(* 2 holds the number 5; every node matches (empty AND group).             *)
(***************************************************************************)
ValueVals == {Absent, Num(5), Str("5"), Str("x"), Null, ListV(2)}

ValueCharts ==
    { Chart(<<Node(Num(1), v, FALSE, <<>>), Node(Num(2), Num(5), FALSE, <<>>)>>, <<>>) :
        v \in ValueVals }

ValueCalls ==
    { Args(op, "val", FilterGroup(<<>>, "and"), v, adj) :
        op \in {"add", "multiply", "divide", "scale"},
        v \in {Num(0), Num(2)},
        adj \in {Num(1), Num(3)} }

ValueInit ==
    /\ data \in ValueCharts
    /\ input = data
    /\ pc = "idle"
    /\ call = NoCall
    /\ nodes_to_move = <<>>
    /\ outcome = [kind |-> "none", doc |-> data]
    /\ errlog = FALSE
    /\ probe = NoProbe
    /\ AuxIdle

ValueNext ==
    \/ \E c \in ValueCalls : TreeWalk(c)
    \/ ReturnData

ValueSpec == ValueInit /\ [][ValueNext]_vars

(***************************************************************************)
(* FieldSpec: CHANGE and ADD on the charts whose nodes all hold a number   *)
(* under val.  When a call has returned, the caller may apply the same     *)
(* call once more to the document it got back; probe.result = "again"      *)
(* marks that second application.  input is the document as it was when    *)
(* the application under way started.                                      *)
(***************************************************************************)
NumVals == {Num(1), Num(5), Num(9)}

FieldCharts ==
    { Chart(roots, <<>>) :
        roots \in UNION { ForestsOver(n, 1, NumVals) : n \in 1..MaxNodes } }

FieldCalls ==
    { Args("change", "val", FilterGroup(<<f>>, "and"), v, Num(1)) :
        f \in {FVal5, FValGt3}, v \in {Num(1), Num(5), Str("x")} }
    \cup { Args("add", "val", fg, Num(1), Num(1)) :
             fg \in { FilterGroup(<<>>, "and"),
                      FilterGroup(<<FValGt3>>, "and"),
                      FilterGroup(<<FVal5, FId2>>, "or") } }

FieldInit ==
    /\ data \in FieldCharts
    /\ input = data
    /\ pc = "idle"
    /\ call = NoCall
    /\ nodes_to_move = <<>>
    /\ outcome = [kind |-> "none", doc |-> data]
    /\ errlog = FALSE
    /\ probe = NoProbe
    /\ AuxIdle

\* the first application, with any of the calls drawn
FirstCall(c) ==
    /\ probe.result = "none"
    /\ TreeWalk(c)

\* the caller takes the returned document to apply the call to it again
Again ==
    /\ pc = "done"
    /\ outcome.kind = "returned"
    /\ probe.result = "none"
    /\ data' = outcome.doc
    /\ input' = outcome.doc
    /\ pc' = "idle"
    /\ nodes_to_move' = <<>>
    /\ outcome' = [kind |-> "none", doc |-> outcome.doc]
    /\ probe' = [probe EXCEPT !.result = "again"]
    /\ UNCHANGED <<call, errlog>>
    /\ UNCHANGED aux

\* the second application, with the arguments of the first
SecondCall ==
    /\ probe.result = "again"
    /\ TreeWalk(call)

FieldNext ==
    \/ \E c \in FieldCalls : FirstCall(c)
    \/ ReturnData
    \/ Again
    \/ SecondCall

FieldSpec == FieldInit /\ [][FieldNext]_vars

(***************************************************************************)
(* GuiSpec: ScenarioToolGUI.apply_operation on a chart scenario.  gui.file *)
(* is the content of galaxy_chart.json, gui.status the text of the status  *)
(* label ("" until the handler sets it).  The handler has read the file    *)
(* into data; the engine call runs as in Spec; then the handler either     *)
(* writes the file and reports success, or reports the exception.          *)
(***************************************************************************)
StatusApplied == "Operation applied successfully!"

StatusError == "Error applying operation"

\* the handler builds AND groups only, and its operation list has no SCALE
GuiCalls == { c \in Calls : c.filter_group.logical_op = "and" /\ c.operation # "scale" }

GuiInit ==
    /\ data \in Charts
    /\ input = data
    /\ pc = "idle"
    /\ call = NoCall
    /\ nodes_to_move = <<>>
    /\ outcome = [kind |-> "none", doc |-> data]
    /\ errlog = FALSE
    /\ probe = NoProbe
    /\ gui = [file |-> data, status |-> ""]
    /\ walk = NoWalk /\ script = NoScript /\ tool = NoTool

\* lines 965-973: the returned document is written over the file
SaveFile ==
    /\ pc = "done"
    /\ outcome.kind = "returned"
    /\ gui.status = ""
    /\ gui' = [file |-> outcome.doc, status |-> StatusApplied]
    /\ UNCHANGED <<data, pc, call, input, nodes_to_move, outcome, errlog, probe,
                   walk, script, tool>>

\* lines 976-977: an exception of the engine call is shown
ShowError ==
    /\ pc = "done"
    /\ outcome.kind = "raised"
    /\ gui.status = ""
    /\ gui' = [gui EXCEPT !.status = StatusError]
    /\ UNCHANGED <<data, pc, call, input, nodes_to_move, outcome, errlog, probe,
                   walk, script, tool>>

GuiNext ==
    \/ \E c \in GuiCalls : TreeWalk(c)
    \/ SecondPass
    \/ ReturnData
    \/ SaveFile
    \/ ShowError

GuiSpec == GuiInit /\ [][GuiNext]_vars

(***************************************************************************)
(* FlattenSpec: flatten_systems.transform_scenario on a galaxy chart.      *)
(*   data    galaxy_chart.json in the working directory                    *)
(*   script  the script's locals: first is first_root_node, rest the       *)
(*           further root nodes the loop has yet to take                   *)
(***************************************************************************)
FlattenCharts ==
    { Chart(roots, lanes) :
        roots \in UNION { Forests(n, 1) : n \in 0..MaxNodes },
        lanes \in PhaseLanes }

FlattenInit ==
    /\ data \in FlattenCharts
    /\ input = data
    /\ pc = "idle"
    /\ call = NoCall
    /\ nodes_to_move = <<>>
    /\ outcome = [kind |-> "none", doc |-> data]
    /\ errlog = FALSE
    /\ probe = NoProbe
    /\ script = [pc |-> "start", first |-> NoNode, rest |-> <<>>]
    /\ walk = NoWalk /\ gui = NoGui /\ tool = NoTool

\* lines 43-47: the copy of a further root, without child_nodes, with the
\* two keys the script sets
StarCopy(node) ==
    [id |-> node.id, val |-> node.val, has_cn |-> FALSE, child_nodes |-> <<>>,
     original_parent_id |-> Num(0), chance_of_retrograde_orbit |-> Num(0)]

\* variant: the star goes in before its children
Flattened_star_first(first, node) ==
    [first EXCEPT !.child_nodes = @ \o <<StarCopy(node)>> \o node.child_nodes]

\* lines 50-55: first_root_node after one further root is taken
Flattened(first, node) ==
    [first EXCEPT !.child_nodes = @ \o node.child_nodes \o <<StarCopy(node)>>]

\* lines 33-36: root_nodes[0] of an empty list is an IndexError
LoadChart ==
    /\ script.pc = "start"
    /\ script' = IF data.root_nodes = <<>>
                    THEN [pc |-> "raised", first |-> NoNode, rest |-> <<>>]
                    ELSE [pc |-> "loop", first |-> Head(data.root_nodes),
                          rest |-> Tail(data.root_nodes)]
    /\ UNCHANGED <<data, pc, call, input, nodes_to_move, outcome, errlog, probe,
                   walk, gui, tool>>

\* lines 40-55: one turn of the loop; first_root_node['child_nodes'] of a
\* first root without the key is a KeyError
FlattenOne ==
    /\ script.pc = "loop"
    /\ script.rest # <<>>
    /\ script' = IF ~script.first.has_cn
                    THEN [script EXCEPT !.pc = "raised"]
                    ELSE [script EXCEPT !.first = Flattened(@, Head(script.rest)),
                                        !.rest = Tail(@)]
    /\ UNCHANGED <<data, pc, call, input, nodes_to_move, outcome, errlog, probe,
                   walk, gui, tool>>

\* lines 58-62: the chart is saved with the first root as its only root
SaveChart ==
    /\ script.pc = "loop"
    /\ script.rest = <<>>
    /\ data' = [data EXCEPT !.root_nodes = <<script.first>>]
    /\ script' = [script EXCEPT !.pc = "saved"]
    /\ UNCHANGED <<pc, call, input, nodes_to_move, outcome, errlog, probe,
                   walk, gui, tool>>

FlattenNext ==
    \/ LoadChart
    \/ FlattenOne
    \/ SaveChart

FlattenSpec == FlattenInit /\ [][FlattenNext]_vars

(***************************************************************************)
(* PairSpec: pair_wormholes_randomly.transform_scenario on a galaxy chart. *)
(*   data    galaxy_chart.json in the working directory                    *)
(*   script  the script's locals: unlinked is unlinked_wormholes, lanes is *)
(*           new_phase_lanes, next_id the id of the next lane              *)
(***************************************************************************)
MaxBodies == 4

Wormhole == "wormhole_fixture"

Fillings == {Wormhole, "planet"}

Body(id, filling, kids) ==
    [id |-> Num(id), val |-> Absent, has_cn |-> kids # <<>>, child_nodes |-> kids,
     filling_name |-> filling]

\* the forests of n bodies whose ids, in document order, are first, first+1, ...
RECURSIVE Systems(_, _)
Systems(n, first) ==
    IF n = 0 THEN {<<>>}
    ELSE UNION { { <<Body(first, f, kids)>> \o rest :
                     f \in Fillings,
                     kids \in Systems(k, first + 1),
                     rest \in Systems(n - 1 - k, first + 1 + k) } :
                 k \in 0..(n - 1) }

\* the lanes a chart comes with: none, or one that links two of its wormholes
LanesOf(roots) ==
    LET found == { w \in AllNodes(roots) : w.filling_name = Wormhole }
    IN {<<>>} \cup
       { <<Edge(Num(9), p[1].id, p[2].id, "wormhole")>> :
           p \in { q \in found \X found : q[1].id.n < q[2].id.n } }

PairCharts ==
    UNION { { Chart(roots, lanes) : lanes \in LanesOf(roots) } :
            roots \in UNION { Systems(n, 1) : n \in 1..MaxBodies } }

PyMax(a, b) == IF b > a THEN b ELSE a

RECURSIVE MaxIdOf(_, _)
MaxIdOf(items, max_id) ==
    IF items = <<>> THEN max_id
    ELSE MaxIdOf(Tail(items), PyMax(max_id, Head(items).id.n))

\* lines 30-33: the root nodes and their own children
RECURSIVE MaxOfRoots(_, _)
MaxOfRoots(roots, max_id) ==
    IF roots = <<>> THEN max_id
    ELSE MaxOfRoots(Tail(roots),
             MaxIdOf(Head(roots).child_nodes, PyMax(max_id, Head(roots).id.n)))

get_max_id(chart) == MaxIdOf(chart.phase_lanes, MaxOfRoots(chart.root_nodes, 0))

\* lines 48-52: the wormholes among the children of the root nodes
RECURSIVE WormholesOf(_)
WormholesOf(roots) ==
    IF roots = <<>> THEN <<>>
    ELSE SelectSeq(Head(roots).child_nodes, LAMBDA c : c.filling_name = Wormhole)
         \o WormholesOf(Tail(roots))

\* list.remove(x): the list without its first item equal to x
RECURSIVE ListRemove(_, _)
ListRemove(lst, x) ==
    IF lst = <<>> THEN <<>>
    ELSE IF Head(lst) = x THEN Tail(lst)
    ELSE <<Head(lst)>> \o ListRemove(Tail(lst), x)

PairInit ==
    /\ data \in PairCharts
    /\ input = data
    /\ pc = "idle"
    /\ call = NoCall
    /\ nodes_to_move = <<>>
    /\ outcome = [kind |-> "none", doc |-> data]
    /\ errlog = FALSE
    /\ probe = NoProbe
    /\ script = [pc |-> "start", unlinked |-> <<>>, lanes |-> <<>>, next_id |-> 0]
    /\ walk = NoWalk /\ gui = NoGui /\ tool = NoTool

\* lines 45-59
CollectWormholes ==
    /\ script.pc = "start"
    /\ script' = [pc |-> "pairing", unlinked |-> WormholesOf(data.root_nodes),
                  lanes |-> <<>>, next_id |-> get_max_id(data) + 1]
    /\ UNCHANGED <<data, pc, call, input, nodes_to_move, outcome, errlog, probe,
                   walk, gui, tool>>

\* lines 61-74: one turn of the loop, for each pair random.choice can give
PairTwo ==
    /\ script.pc = "pairing"
    /\ Len(script.unlinked) >= 2
    /\ \E i \in 1..Len(script.unlinked) :
         LET wormhole_a == script.unlinked[i]
             rest == ListRemove(script.unlinked, wormhole_a)
         IN \E j \in 1..Len(rest) :
              LET wormhole_b == rest[j]
              IN script' = [script EXCEPT
                     !.unlinked = ListRemove(rest, wormhole_b),
                     !.lanes = @ \o <<Edge(Num(script.next_id), wormhole_a.id,
                                            wormhole_b.id, "wormhole")>>,
                     !.next_id = @ + 1]
    /\ UNCHANGED <<data, pc, call, input, nodes_to_move, outcome, errlog, probe,
                   walk, gui, tool>>

\* lines 77-85: the new lanes are added to the chart and the chart is saved
SaveLanes ==
    /\ script.pc = "pairing"
    /\ Len(script.unlinked) < 2
    /\ data' = [data EXCEPT !.phase_lanes = @ \o script.lanes]
    /\ script' = [script EXCEPT !.pc = "saved"]
    /\ UNCHANGED <<pc, call, input, nodes_to_move, outcome, errlog, probe,
                   walk, gui, tool>>

PairNext ==
    \/ CollectWormholes
    \/ PairTwo
    \/ SaveLanes

PairSpec == PairInit /\ [][PairNext]_vars

(***************************************************************************)
(* ToolSpec: ScenarioTool.extract_scenario and the guard of apply_script.  *)
(*   tool  current_type, the two working directories (a file is its name   *)
(*         and the scenario it came from), the argument of the last        *)
(*         extract_scenario call, the scenario last extracted with         *)
(*         success, and what the last call did                             *)
(***************************************************************************)
required_files == {"galaxy_chart_fillings.json", "scenario_info.json"}

FileNames ==
    required_files \cup {"galaxy_chart.json", "galaxy_chart_generator_params.json"}

\* a scenario file: a zip archive with these member names, or not a zip
Scenario(tag, names, is_zip) == [tag |-> tag, names |-> names, is_zip |-> is_zip]

NoScenario == Scenario("", {}, FALSE)

Scenarios ==
    { Scenario(tag, names, TRUE) : tag \in {"a", "b"}, names \in SUBSET FileNames }
    \cup { Scenario("c", {}, FALSE) }

\* the files extractall writes
FilesOf(scenario) == { <<f, scenario.tag>> : f \in scenario.names }

WorkingDirs(chart, generator) == [chart |-> chart, generator |-> generator]

ToolInit ==
    /\ data = Mapping(NoNode, <<>>)
    /\ input = data
    /\ pc = "idle"
    /\ call = NoCall
    /\ nodes_to_move = <<>>
    /\ outcome = [kind |-> "none", doc |-> data]
    /\ errlog = FALSE
    /\ probe = NoProbe
    /\ tool = [pc |-> "ready", current_type |-> "none",
               working_dirs |-> WorkingDirs({}, {}),
               scenario_path |-> NoScenario, extracted |-> NoScenario,
               last_call |-> "none"]
    /\ walk = NoWalk /\ gui = NoGui /\ script = NoScript

\* lines 127-133: the type the member names give, "none" when neither
TypeOf(names) ==
    IF "galaxy_chart.json" \in names THEN "chart"
    ELSE IF "galaxy_chart_generator_params.json" \in names THEN "generator"
    ELSE "none"

\* lines 116-138, after the working directories are cleared: TRUE when the
\* scenario is extracted
Extracts(scenario) ==
    /\ scenario.is_zip
    /\ required_files \subseteq scenario.names
    /\ TypeOf(scenario.names) # "none"

\* lines 110-113: both working directories are emptied
Cleared == WorkingDirs({}, {})

extract_scenario(scenario_path) ==
    /\ tool.pc = "ready"
    /\ LET dirs == Cleared
       IN tool' = IF Extracts(scenario_path)
                    THEN [tool EXCEPT
                            !.current_type = TypeOf(scenario_path.names),
                            !.working_dirs =
                                [dirs EXCEPT ![TypeOf(scenario_path.names)] =
                                                 FilesOf(scenario_path)],
                            !.scenario_path = scenario_path,
                            !.extracted = scenario_path,
                            !.last_call = "extracted"]
                    ELSE [tool EXCEPT
                            !.working_dirs = dirs,
                            !.scenario_path = scenario_path,
                            !.last_call = "extract_failed"]
    /\ UNCHANGED <<data, pc, call, input, nodes_to_move, outcome, errlog, probe,
                   walk, gui, script>>

\* lines 144-149: no script is run while current_type is unset
apply_script ==
    /\ tool.pc = "ready"
    /\ tool' = [tool EXCEPT !.last_call =
                    IF tool.current_type = "none" THEN "no_scenario_loaded"
                    ELSE "script_run"]
    /\ UNCHANGED <<data, pc, call, input, nodes_to_move, outcome, errlog, probe,
                   walk, gui, script>>

ToolNext ==
    \/ \E scenario_path \in Scenarios : extract_scenario(scenario_path)
    \/ apply_script

ToolSpec == ToolInit /\ [][ToolNext]_vars

(***************************************************************************)
(* WalkSpec: the first pass of apply_operation, one process_object call at *)
(* a time.  walk.stack holds one frame per process_list call under way:    *)
(* items is what the for loop has not finished yet (below the top frame,   *)
(* its head is the node whose children the frame above processes), out is  *)
(* the result list so far.  walk.visited lists the ids of the nodes        *)
(* process_object was called on, in call order.  data['root_nodes'] is     *)
(* assigned when the root list is finished (line 178); walk.moved is the   *)
(* closure's nodes_to_move while the walk runs.                            *)
(***************************************************************************)
WalkVals == {Num(5), Str("x")}

WalkCharts ==
    { Chart(roots, <<>>) :
        roots \in UNION { ForestsOver(n, 1, WalkVals) : n \in 1..MaxNodes } }

\* one call of every operation kind, MOVE with a target that exists and one
\* that does not
WalkCalls ==
    { Args("remove_node", "", FilterGroup(<<FVal5>>, "and"), Null, Num(1)),
      Args("set_parent_node", "1", FilterGroup(<<FVal5>>, "and"), Null, Num(1)),
      Args("set_parent_node", "99", FilterGroup(<<FVal5>>, "and"), Null, Num(1)) }
    \cup { Args(op, "val", FilterGroup(<<FValGt3>>, "and"), Num(2), Num(1)) :
             op \in FieldOps }

\* one process_list call under way: inplace lists the items already
\* processed, as the call left the caller's own objects
Frame(items, out, inplace) == [items |-> items, out |-> out, inplace |-> inplace]

WalkInit ==
    /\ data \in WalkCharts
    /\ input = data
    /\ pc = "idle"
    /\ call = NoCall
    /\ nodes_to_move = <<>>
    /\ outcome = [kind |-> "none", doc |-> data]
    /\ errlog = FALSE
    /\ probe = NoProbe
    /\ walk = [pc |-> "ready", stack |-> <<>>, visited |-> <<>>, moved |-> <<>>,
               inplace |-> <<>>]
    /\ gui = NoGui /\ script = NoScript /\ tool = NoTool

\* line 178 calls process_list(data['root_nodes'])
StartWalk(c) ==
    /\ pc = "idle"
    /\ walk.pc = "ready"
    /\ call' = c
    /\ pc' = "walking"
    /\ walk' = [walk EXCEPT !.pc = "walking",
                            !.stack = <<Frame(data.root_nodes, <<>>, <<>>)>>]
    /\ UNCHANGED <<data, input, nodes_to_move, outcome, errlog, probe, gui, script, tool>>

\* variant: the children are walked twice
ChildItems_twice(obj) == obj.child_nodes \o obj.child_nodes

\* line 128: the list handed to process_list for obj's children
ChildItems(obj) == obj.child_nodes

\* process_object is called on the next item, which has child_nodes: the for
\* loop of a new process_list call starts on them (lines 127-128)
EnterNode ==
    /\ pc = "walking"
    /\ walk.pc = "walking"
    /\ LET top == walk.stack[Len(walk.stack)] IN
       /\ top.items # <<>>
       /\ Head(top.items).has_cn
       /\ walk' = [walk EXCEPT !.stack = Append(@, Frame(ChildItems(Head(top.items)), <<>>, <<>>)),
                               !.visited = Append(@, Head(top.items).id)]
    /\ UNCHANGED <<data, pc, call, input, nodes_to_move, outcome, errlog, probe,
                   gui, script, tool>>

\* the root list as an exception leaves it: lst is the list of frame k as
\* the exception leaves it; the node above it keeps its own list object,
\* whose items were rewritten in place (the assignment of line 128 is not
\* reached)
RECURSIVE Unwind(_, _, _)
Unwind(stack, k, lst) ==
    IF k = 1 THEN lst
    ELSE LET below == stack[k - 1]
             obj == [Head(below.items) EXCEPT !.child_nodes = lst]
         IN  Unwind(stack, k - 1, below.inplace \o <<obj>> \o Tail(below.items))

\* walk after one process_object call has ended: r is the call's result,
\* depth the frame of the list it was called from, visited the calls so far
EndNode(r, depth, visited) ==
    LET frame == walk.stack[depth] IN
    IF r.raised
    THEN [pc |-> "raising", stack |-> <<>>, visited |-> visited,
          moved |-> walk.moved \o r.moved,
          inplace |-> Unwind(walk.stack, depth,
                             frame.inplace \o <<r.inplace>> \o Tail(frame.items))]
    ELSE [pc |-> "walking",
          stack |-> SubSeq(walk.stack, 1, depth - 1)
                    \o <<Frame(Tail(frame.items), frame.out \o Kept(r),
                                frame.inplace \o <<r.inplace>>)>>,
          visited |-> visited,
          moved |-> walk.moved \o r.moved,
          inplace |-> <<>>]

\* process_object is called on the next item, which has no child_nodes
VisitLeaf ==
    /\ pc = "walking"
    /\ walk.pc = "walking"
    /\ walk.stack[Len(walk.stack)].items # <<>>
    /\ ~Head(walk.stack[Len(walk.stack)].items).has_cn
    /\ walk' = EndNode(NodeStep(Head(walk.stack[Len(walk.stack)].items), call, <<>>),
                       Len(walk.stack),
                       Append(walk.visited, Head(walk.stack[Len(walk.stack)].items).id))
    /\ UNCHANGED <<data, pc, call, input, nodes_to_move, outcome, errlog, probe,
                   gui, script, tool>>

\* the for loop over a node's children is over: process_list returns, the
\* node gets the result as child_nodes and is evaluated (lines 128-158)
LeaveNode ==
    /\ pc = "walking"
    /\ walk.pc = "walking"
    /\ Len(walk.stack) > 1
    /\ walk.stack[Len(walk.stack)].items = <<>>
    /\ walk' = EndNode(NodeStep([Head(walk.stack[Len(walk.stack) - 1].items)
                                    EXCEPT !.child_nodes = walk.stack[Len(walk.stack)].out],
                                call, <<>>),
                       Len(walk.stack) - 1, walk.visited)
    /\ UNCHANGED <<data, pc, call, input, nodes_to_move, outcome, errlog, probe,
                   gui, script, tool>>

\* the exception leaves apply_operation
RaiseOut ==
    /\ pc = "walking"
    /\ walk.pc = "raising"
    /\ data' = [data EXCEPT !.root_nodes = walk.inplace]
    /\ outcome' = [kind |-> "raised", doc |-> [data EXCEPT !.root_nodes = walk.inplace]]
    /\ nodes_to_move' = walk.moved
    /\ pc' = "done"
    /\ walk' = [walk EXCEPT !.pc = "raised"]
    /\ UNCHANGED <<call, input, errlog, probe, gui, script, tool>>

\* the for loop over the root list is over: line 178 assigns the result
FinishWalk ==
    /\ pc = "walking"
    /\ walk.pc = "walking"
    /\ Len(walk.stack) = 1
    /\ walk.stack[1].items = <<>>
    /\ data' = WalkedChart(data, walk.stack[1].out)
    /\ nodes_to_move' = walk.moved
    /\ pc' = "walked"
    /\ walk' = [walk EXCEPT !.pc = "finished"]
    /\ UNCHANGED <<call, input, outcome, errlog, probe, gui, script, tool>>

WalkNext ==
    \/ \E c \in WalkCalls : StartWalk(c)
    \/ EnterNode
    \/ VisitLeaf
    \/ LeaveNode
    \/ RaiseOut
    \/ FinishWalk
    \/ SecondPass
    \/ ReturnData

WalkSpec == WalkInit /\ [][WalkNext]_vars

\* the interpreter goes on running the call while it has a step to take
WalkLive == WalkSpec /\ WF_vars(WalkNext)

(***************************************************************************)
(* Vocabulary of the properties.                                           *)
(***************************************************************************)
ReadsChildNodes(fg) == \E i \in 1..Len(fg.filters) : fg.filters[i].property = "child_nodes"

\* the nodes of the input that satisfy the call's predicate group
Matching == { n \in AllNodes(input.root_nodes) :
                FilterGroupEvaluate(call.filter_group, n) = "true" }

\* the ids of the nodes the walk collected for moving
MovedIds == { nodes_to_move[i].id : i \in 1..Len(nodes_to_move) }

\* the ids of the nodes that matched: those the walk found matching, and, for
\* a group that does not read child_nodes, those that match in the input
MatchedIds ==
    MovedIds \cup (IF ReadsChildNodes(call.filter_group) THEN {}
                   ELSE { n.id : n \in Matching })

\* the matching nodes that do not lie inside another matching node's subtree
OutermostMatching ==
    { n \in Matching : \A m \in Matching : m = n \/ n.id \notin SubtreeIds(m) }

TreeCallDone(op) == pc = "done" /\ input.has_root /\ call.operation = op

Returned == outcome.kind = "returned"

\* some node of the forest has the target id (compared as a string)
HasTarget(forest) == \E n \in AllNodes(forest) : PyStr(n.id) = call.target_property

TargetNode(forest) == CHOOSE n \in AllNodes(forest) : PyStr(n.id) = call.target_property

(***************************************************************************)
(* Properties.                                                             *)
(***************************************************************************)
Result_roots == outcome.doc.root_nodes

\* C1: a MOVE whose target id is the id of a node of the input document
\* returns a tree with as many nodes as the input tree, also when the target
\* itself matches or lies inside a matched node's subtree.
C1_MoveKeepsNodeCount ==
    (TreeCallDone("set_parent_node") /\ Returned /\ HasTarget(input.root_nodes))
        => CountNodes(Result_roots) = CountNodes(input.root_nodes)

C3_MatchedAreChildrenOfTarget ==
    (TreeCallDone("set_parent_node") /\ Returned /\ HasTarget(Result_roots))
        => \A id \in MatchedIds :
              /\ Occurrences(Result_roots, id) = 1
              /\ id \in ChildIds(Result_roots, TargetNode(Result_roots).id)

\* a found-target MOVE of two nodes, one of which was not a child of the target
C3_Witness ==
    /\ TreeCallDone("set_parent_node") /\ Returned /\ HasTarget(Result_roots)
    /\ Cardinality(MatchedIds) >= 2
    /\ \E id \in MatchedIds :
          id \notin ChildIds(input.root_nodes, TargetNode(input.root_nodes).id)

\* C4: when the first pass of a MOVE has completed and no node of the
\* rewritten tree has the target id, the call returns normally, and the
\* returned tree is the input tree with the matched nodes and their subtrees
\* cut out: nothing else is missing or changed.
C4_MissingTargetDropsMatched ==
    [][ (pc = "walked" /\ call.operation = "set_parent_node" /\ ~HasTarget(data.root_nodes))
          => /\ outcome'.kind = "returned"
             /\ outcome'.doc.root_nodes = Without(input.root_nodes, MatchedIds)
             /\ \A id \in MatchedIds : Occurrences(outcome'.doc.root_nodes, id) = 0 ]_vars

\* a MOVE to an id no node has, which detached a node and left another
C4_Witness ==
    /\ TreeCallDone("set_parent_node") /\ Returned
    /\ ~HasTarget(input.root_nodes)
    /\ MatchedIds # {}
    /\ Result_roots # <<>>

\* C5: a MOVE that collected nodes and cannot find its target does not end as
\* a normally returned document.
C5_MissingTargetIsSignalled ==
    (TreeCallDone("set_parent_node") /\ nodes_to_move # <<>> /\ ~HasTarget(Result_roots))
        => outcome.kind # "returned"

C7_RaiseLeavesDocumentUntouched ==
    (pc = "done" /\ outcome.kind = "raised") => data = input

\* C8: for a document with root_nodes and every operation, the phase_lanes of
\* the returned document are those of the input: same edges, same order.
C8_PhaseLanesUntouched ==
    (pc = "done" /\ input.has_root /\ Returned)
        => outcome.doc.phase_lanes = input.phase_lanes

\* a call that took a node out of the tree while a lane ends at that node
C8_Witness ==
    /\ pc = "done" /\ input.has_root /\ Returned
    /\ \E i \in 1..Len(input.phase_lanes) :
          /\ input.phase_lanes[i].node_a \in IdsOf(input.root_nodes)
          /\ input.phase_lanes[i].node_a \notin IdsOf(Result_roots)

\* C9: in a document without root_nodes, the mappings nested in an array under
\* a key other than child_nodes come out as the walk of a node list would
\* leave them.
C9_GenericModeReachesEveryMapping ==
    (pc = "done" /\ ~input.has_root /\ Returned /\ ~process_list(input.items, call).raised)
        => outcome.doc.items = process_list(input.items, call).out

\* C10: Filter.evaluate on an object that lacks the filter's field is false,
\* for every comparator and literal, and does not raise.
C10_AbsentFieldIsFalse ==
    (probe.done /\ ~Has(probe.obj, probe.filter.property))
        => probe.result = "false"

\* NOT_EQUALS evaluated on an object without the field
C10_Witness ==
    /\ probe.done
    /\ ~Has(probe.obj, probe.filter.property)
    /\ probe.filter.comparison = "not_equals"

\* a string or an array on one side, a number on the other
StringOrArrayAgainstNumber(a, b) ==
    \/ a.t \in {"str", "list"} /\ b.t = "num"
    \/ a.t = "num" /\ b.t \in {"str", "list"}

\* C11: GREATER_THAN or LESS_THAN evaluated on a stored value and a literal
\* that cannot be order-compared (a string against a number, an array against
\* a number) does not raise and gives false.
C11_IncomparableIsFalse ==
    (/\ probe.done
     /\ probe.filter.comparison \in {"greater_than", "less_than"}
     /\ Has(probe.obj, probe.filter.property)
     /\ StringOrArrayAgainstNumber(Get(probe.obj, probe.filter.property),
                                   probe.filter.value))
        => probe.result = "false"

\* C20: EQUALS of a field with the very value the object stores under it is
\* true, and EQUALS of a stored number with the string form of that number is
\* false.
C20_EqualsOwnValueAndTyped ==
    (probe.done /\ probe.filter.comparison = "equals"
                /\ Has(probe.obj, probe.filter.property))
        => LET stored == Get(probe.obj, probe.filter.property)
               literal == probe.filter.value
           IN  /\ (literal = stored => probe.result = "true")
               /\ (stored.t = "num" /\ literal = Str(PyStr(stored))
                     => probe.result = "false")

\* the number 5 tested against the string "5"
C20_Witness ==
    /\ probe.done
    /\ probe.filter = Filter("val", "equals", Str("5"))
    /\ Get(probe.obj, "val") = Num(5)
    /\ probe.result = "false"

\* the i-th predicate of the probed group holds of the probed object
Holds(i) == FilterEvaluate(probe.group.filters[i], probe.obj) = "true"

\* every predicate of the probed group evaluates to true or false
AllEvaluate ==
    \A i \in 1..Len(probe.group.filters) :
        FilterEvaluate(probe.group.filters[i], probe.obj) # "raise"

GroupEvaluated(op) == probe.done /\ probe.group.logical_op = op /\ AllEvaluate

\* C12: on a list of 0..MaxFilters predicates that each evaluate, AND is true
\* iff every predicate is true (true for the empty list), OR is true iff at
\* least one is (false for the empty list), and NAND is the negation of AND
\* on the same list (false for the empty list, not p for [p]).
C12_AndOrNand ==
    LET n == Len(probe.group.filters)
        andOf == FilterGroupEvaluate(FilterGroup(probe.group.filters, "and"), probe.obj)
    IN  /\ GroupEvaluated("and") =>
              /\ probe.result = "true" <=> \A i \in 1..n : Holds(i)
              /\ probe.result \in {"true", "false"}
              /\ n = 0 => probe.result = "true"
        /\ GroupEvaluated("or") =>
              /\ probe.result = "true" <=> \E i \in 1..n : Holds(i)
              /\ probe.result \in {"true", "false"}
              /\ n = 0 => probe.result = "false"
        /\ GroupEvaluated("nand") =>
              /\ probe.result = "true" <=> andOf = "false"
              /\ probe.result \in {"true", "false"}
              /\ n = 0 => probe.result = "false"
              /\ n = 1 => (probe.result = "true" <=> ~Holds(1))

\* NAND of the empty list has been evaluated
C12_Witness ==
    /\ probe.done
    /\ probe.group = FilterGroup(<<>>, "nand")
    /\ probe.result = "false"

\* C13: XOR is true iff exactly one predicate of the list is true: false for
\* the empty list, p for [p], p # q for [p, q], false for three true
\* predicates.
C13_XorExactlyOne ==
    LET n == Len(probe.group.filters)
    IN  GroupEvaluated("xor") =>
          /\ probe.result \in {"true", "false"}
          /\ probe.result = "true"
                <=> Cardinality({i \in 1..n : Holds(i)}) = 1
          /\ n = 0 => probe.result = "false"
          /\ n = 1 => (probe.result = "true" <=> Holds(1))
          /\ n = 2 => (probe.result = "true" <=> (Holds(1) # Holds(2)))
          /\ (n = 3 /\ Holds(1) /\ Holds(2) /\ Holds(3)) => probe.result = "false"

\* XOR of three different predicates, all true of the object
C13_Witness ==
    /\ probe.done
    /\ probe.group = FilterGroup(<<FVal5, FValGt3, FId2>>, "xor")
    /\ \A i \in 1..3 : Holds(i)
    /\ probe.result = "false"

\* the value the node with this id holds under val when the call is over
ValAfter(id) == NodeAt(Result_roots, id).val

\* a * b for two numbers
Times(a, b) == Rat(a.n * b.n, a.d * b.d)

\* a + b for two numbers
Plus(a, b) == Rat(a.n * b.d + b.n * a.d, a.d * b.d)

\* not a number and not a string that float() parses
NonNumeric(v) ==
    \/ v.t \in {"null", "list"}
    \/ v.t = "str" /\ v.s \notin NumericStrings

\* C14: DIVIDE whose effective operand value * operator_adjustment is 0 does
\* not raise and leaves the target field of every matched node with the value
\* it had, in value and in type, a numeric-looking string included.
C14_DivideByZeroKeepsValue ==
    (TreeCallDone("divide") /\ Operand(call) = Num(0))
        => /\ Returned
           /\ \A n \in Matching : ValAfter(n.id) = n.val

\* C15: ADD, MULTIPLY or DIVIDE with a numeric operand on a matched node whose
\* target value is a non-numeric string, an array or null does not raise,
\* leaves that value as it was, and still processes every other node.
C15_NonNumericIsSkipped ==
    (/\ pc = "done" /\ input.has_root
     /\ call.operation \in {"add", "multiply", "divide"}
     /\ Operand(call).t = "num"
     /\ \E n \in Matching : NonNumeric(n.val))
        => /\ Returned
           /\ \A n \in Matching :
                 ValAfter(n.id) = IF NonNumeric(n.val) THEN n.val
                                  ELSE process_value(n.val, call)

\* C16: SCALE sets the target field of every matched node that holds a number
\* to that number times the value argument of the call.
C16_ScaleMultipliesByValue ==
    (TreeCallDone("scale") /\ Returned)
        => \A n \in Matching :
              n.val.t = "num" => ValAfter(n.id) = Times(n.val, call.value)

\* the node of the result with this id has the id, the child_nodes key and the
\* children's ids of the input node n
SameShape(n) ==
    LET m == NodeAt(Result_roots, n.id)
    IN  /\ Occurrences(Result_roots, n.id) = 1
        /\ m.has_cn = n.has_cn
        /\ ChildIds(Result_roots, n.id) = ChildIds(input.root_nodes, n.id)

\* C18: ADD_PROPERTY sets the target field to the operand on exactly the
\* matched nodes that lack it; a matched node that has the field (and every
\* unmatched node) is returned with every field as it was.
C18_AddPropertyOnlyWhenMissing ==
    (TreeCallDone("add_property") /\ Returned)
        => /\ CountNodes(Result_roots) = CountNodes(input.root_nodes)
           /\ \A n \in AllNodes(input.root_nodes) :
                 /\ SameShape(n)
                 /\ ValAfter(n.id) =
                       IF n \in Matching /\ ~Has(n, call.target_property)
                       THEN call.value ELSE n.val

\* a matched node without the field and a matched node with it
C18_Witness ==
    /\ TreeCallDone("add_property") /\ Returned
    /\ \E n \in Matching : ~Has(n, "val") /\ ValAfter(n.id) = call.value
    /\ \E n \in Matching : n.val = Num(5) /\ ValAfter(n.id) = Num(5)

\* C17: applying CHANGE twice with the same arguments gives the document that
\* applying it once gives, also when the predicate tests the field that is
\* changed: the second application returns the document it was given.
C17_ChangeTwiceIsChangeOnce ==
    (pc = "done" /\ call.operation = "change" /\ probe.result = "again")
        => /\ Returned
           /\ outcome.doc = input

\* C19: ADD under a predicate group turns the val of every matching node that
\* holds a number into that number plus the operand, and leaves the val of
\* every other node, and the shape of the tree, as they were.
C19_AddOnMatchingNodes ==
    (TreeCallDone("add") /\ Returned)
        => /\ CountNodes(Result_roots) = CountNodes(input.root_nodes)
           /\ \A n \in AllNodes(input.root_nodes) :
                 /\ SameShape(n)
                 /\ ValAfter(n.id) =
                       IF n \in Matching /\ n.val.t = "num"
                       THEN Plus(n.val, call.value) ELSE n.val

\* three nodes holding 1, 5 and 9, ADD 1 where val GREATER_THAN 3: 1, 6, 10
C19_Witness ==
    /\ TreeCallDone("add") /\ Returned
    /\ probe.result = "none"
    /\ call.filter_group = FilterGroup(<<FValGt3>>, "and")
    /\ call.value = Num(1)
    /\ CountNodes(input.root_nodes) = 3
    /\ NodeAt(input.root_nodes, Num(1)).val = Num(1) /\ ValAfter(Num(1)) = Num(1)
    /\ NodeAt(input.root_nodes, Num(2)).val = Num(5) /\ ValAfter(Num(2)) = Num(6)
    /\ NodeAt(input.root_nodes, Num(3)).val = Num(9) /\ ValAfter(Num(3)) = Num(10)

\* the engine call is over and was not a successful transformation: it
\* raised, or it was a MOVE whose target was not found
TransformationFailed ==
    /\ pc = "done"
    /\ \/ outcome.kind = "raised"
       \/ call.operation = "set_parent_node" /\ errlog

\* C22: whenever the transformation failed, the stored document keeps the
\* content it had before the handler ran and the status shown is not the
\* success message.
C22_FileKeptWhenTransformationFails ==
    TransformationFailed
        => /\ gui.file = input
           /\ gui.status # StatusApplied

\* a call on a chart is over and has returned the document
ChartCallReturned == pc = "done" /\ input.has_root /\ Returned

\* the ids of a node list, in list order
IdSeq(list) == [i \in 1..Len(list) |-> list[i].id]

\* the ids drawn for a chart follow document order, so siblings of the input
\* stand in increasing id order: here the nodes of the list that were not
\* detached by the walk still do
UnmovedInOrder(list) ==
    \A i, j \in 1..Len(list) :
        (i < j /\ list[i].id \notin MovedIds /\ list[j].id \notin MovedIds)
            => list[i].id.n < list[j].id.n

\* C26: in the returned tree the nodes that stayed under their parent keep
\* their relative order (root list and every child list); after a MOVE that
\* found its target, the target's child list is its surviving children, in
\* their order, followed by the moved nodes in the order the walk detached
\* them.
C26_SiblingOrderKept ==
    ChartCallReturned
        => /\ UnmovedInOrder(Result_roots)
           /\ \A n \in AllNodes(Result_roots) : UnmovedInOrder(n.child_nodes)
           /\ (call.operation = "set_parent_node" /\ nodes_to_move # <<>> /\ ~errlog)
                 => LET kids == TargetNode(Result_roots).child_nodes
                        k == Len(kids) - Len(nodes_to_move)
                    IN  /\ k >= 0
                        /\ SubSeq(kids, k + 1, Len(kids)) = nodes_to_move
                        /\ \A i \in 1..k :
                              /\ kids[i].id \notin MovedIds
                              /\ kids[i].id \in ChildIds(input.root_nodes,
                                                         TargetNode(input.root_nodes).id)

\* a node moved under a target that keeps a child of its own
C26_Witness ==
    /\ ChartCallReturned /\ call.operation = "set_parent_node" /\ ~errlog
    /\ Len(nodes_to_move) = 1
    /\ LET kids == TargetNode(Result_roots).child_nodes
       IN  /\ Len(kids) = 2
           /\ kids[1].id \notin MovedIds
           /\ kids[2] = nodes_to_move[1]

\* C27: after REMOVE under a group that does not read child_nodes, no node of
\* the returned tree satisfies the group, and every node of the input that
\* neither matches nor lies below a matching node is still in the tree.
C27_RemoveLeavesNoMatch ==
    (TreeCallDone("remove_node") /\ Returned /\ ~ReadsChildNodes(call.filter_group))
        => /\ \A n \in AllNodes(Result_roots) :
                 FilterGroupEvaluate(call.filter_group, n) # "true"
           /\ \A n \in AllNodes(input.root_nodes) :
                 (\A m \in Matching : n.id \notin SubtreeIds(m))
                     => Occurrences(Result_roots, n.id) = 1

\* a node is removed from below a node that stays
C27_Witness ==
    /\ TreeCallDone("remove_node") /\ Returned
    /\ ~ReadsChildNodes(call.filter_group)
    /\ \E n \in AllNodes(input.root_nodes) :
          /\ n \notin Matching
          /\ n.id \in IdsOf(Result_roots)
          /\ \E m \in Matching : m.id \in ChildIds(input.root_nodes, n.id)

\* C28: the ids of the input tree are distinct, and after any call that
\* returns (REMOVE, MOVE with its target found or missing, an operation on
\* the field val) no id occurs twice in the returned tree.
C28_IdsStayDistinct ==
    ChartCallReturned
        => /\ \A id \in IdsOf(input.root_nodes) : Occurrences(input.root_nodes, id) = 1
           /\ \A id \in IdsOf(Result_roots) : Occurrences(Result_roots, id) = 1

\* a MOVE has put a matched node and its matched descendant under the target
C28_Witness ==
    /\ ChartCallReturned /\ call.operation = "set_parent_node" /\ ~errlog
    /\ \E i, j \in 1..Len(nodes_to_move) :
          /\ i # j
          /\ nodes_to_move[i].id \in SubtreeIds(NodeAt(input.root_nodes, nodes_to_move[j].id))

\* the stepwise walk and the recursive definition agree on what the first
\* pass leaves
WalkAgrees ==
    (pc = "walked" /\ walk.pc = "finished")
        => LET r == process_list(input.root_nodes, call)
           IN  ~r.raised /\ data.root_nodes = r.out /\ nodes_to_move = r.moved

WalkRaiseAgrees ==
    (walk.pc = "raised")
        => LET r == process_list(input.root_nodes, call)
           IN  r.raised /\ nodes_to_move = r.moved /\ data.root_nodes = r.inplace

\* no id is listed twice
NoRepeat(ids) == \A i, j \in 1..Len(ids) : ids[i] = ids[j] => i = j

\* C21: the call always comes to an end (it returns or raises), and by then
\* process_object has been called at most once on each node of the input
\* tree, and on no other node (walk.visited only grows, so no node was
\* visited twice at any earlier moment either).
C21_WalkTerminates ==
    <>(/\ pc = "done"
       /\ NoRepeat(walk.visited)
       /\ \A i \in 1..Len(walk.visited) : walk.visited[i] \in IdsOf(input.root_nodes))

\* a call on a chain of three nested nodes is over, all three visited
C21_Witness ==
    /\ pc = "done"
    /\ Len(walk.visited) = 3
    /\ Len(input.root_nodes) = 1
    /\ \E n \in AllNodes(input.root_nodes) : Len(n.child_nodes) = 1 /\ n.id = Num(2)

\* the step that runs the second pass of a MOVE
Reattaches ==
    /\ pc = "walked" /\ pc' = "done"
    /\ call.operation = "set_parent_node"
    /\ nodes_to_move # <<>>

\* C25: the tree gains nodes only in the reattachment step of a MOVE; that
\* step is taken when the walk has visited every node of the input and every
\* matched node is detached, it looks for the target in the rewritten tree,
\* it evaluates no node (the attached nodes stay although they match), and
\* nothing changes the document after it.
C25_ReattachOnceAfterWalk ==
    [][ /\ CountNodes(data'.root_nodes) > CountNodes(data.root_nodes) => Reattaches
        /\ Reattaches
             => /\ walk.pc = "finished"
                /\ { walk.visited[i] : i \in 1..Len(walk.visited) } = IdsOf(input.root_nodes)
                /\ IdsOf(data.root_nodes) \cap MovedIds = {}
                /\ errlog' = ~HasTarget(data.root_nodes)
                /\ walk' = walk
                /\ ~errlog' => MovedIds \subseteq IdsOf(data'.root_nodes)
        /\ pc = "done" => data' = data
      ]_vars

\* the second pass has attached a collected node after a walk of three nodes
C25_Witness ==
    /\ pc = "done" /\ call.operation = "set_parent_node"
    /\ nodes_to_move # <<>> /\ ~errlog
    /\ walk.pc = "finished" /\ Len(walk.visited) = 3

\* a node is the given root copied without its child_nodes
CopyWithoutChildren(c, root) ==
    /\ c.id = root.id /\ c.val = root.val
    /\ ~c.has_cn /\ c.child_nodes = <<>>

\* for each root in order, its children and then the root itself
RECURSIVE ChildrenThenStar(_)
ChildrenThenStar(roots) ==
    IF roots = <<>> THEN <<>>
    ELSE Head(roots).child_nodes \o <<Head(roots)>> \o ChildrenThenStar(Tail(roots))

WormholeLanesAt(chart, id) ==
    { i \in 1..Len(chart.phase_lanes) :
        /\ chart.phase_lanes[i].type = "wormhole"
        /\ (chart.phase_lanes[i].node_a = id \/ chart.phase_lanes[i].node_b = id) }

AtMostOneLane(chart) ==
    \A w \in AllNodes(chart.root_nodes) :
        w.filling_name = Wormhole => Cardinality(WormholeLanesAt(chart, w.id)) <= 1

\* the lanes the script has added
NewLanes == SubSeq(data.phase_lanes, Len(input.phase_lanes) + 1, Len(data.phase_lanes))

\* no new lane links a wormhole to itself, and at most one of the wormholes
\* found is left without a new lane
PairsAreProper ==
    script.pc = "saved" =>
        /\ \A i \in 1..Len(NewLanes) : NewLanes[i].node_a # NewLanes[i].node_b
        /\ Len(script.unlinked) <= 1
        /\ Len(WormholesOf(input.root_nodes)) = 2 * Len(NewLanes) + Len(script.unlinked)

\* C24: in the chart the script saves, every wormhole fixture is an end of
\* at most one lane of type wormhole (given that this was so in the chart it
\* read), no new lane links a wormhole to itself, and at most one wormhole is
\* left without a new lane.
C24_OneLanePerWormhole ==
    (script.pc = "saved" /\ AtMostOneLane(input)) =>
        /\ AtMostOneLane(data)
        /\ PairsAreProper

\* how many nodes and lanes of the chart carry the id
Carriers(chart, id) ==
    Occurrences(chart.root_nodes, id)
    + Cardinality({ i \in 1..Len(chart.phase_lanes) : chart.phase_lanes[i].id = id })

IdsDistinct(chart) ==
    \A id \in IdsOf(chart.root_nodes)
             \cup { chart.phase_lanes[i].id : i \in 1..Len(chart.phase_lanes) } :
        Carriers(chart, id) = 1

\* C29: get_max_id is the highest id of any node or lane of the chart, and
\* the chart the script saves has no id twice when the chart it read had
\* none.
C29_NewLaneIdsAreFresh ==
    (script.pc = "saved" /\ IdsDistinct(input)) =>
        /\ \A n \in AllNodes(input.root_nodes) : n.id.n <= get_max_id(input)
        /\ IdsDistinct(data)

\* C30: after every call, when current_type is set the working directory of
\* that type holds the files of the scenario last extracted with success;
\* and a failed extract_scenario leaves current_type and the working
\* directories as they were.
C30_FailedExtractChangesNothing ==
    [][ /\ tool'.current_type # "none" =>
             tool'.working_dirs[tool'.current_type] = FilesOf(tool'.extracted)
        /\ tool'.last_call = "extract_failed" =>
             /\ tool'.current_type = tool.current_type
             /\ tool'.working_dirs = tool.working_dirs
      ]_vars

====
